---- MODULE Spec2Model ----
(***************************************************************************)
(* Event Manager (src/app.py): the session state kept in                   *)
(* st.session_state (events, editing_id, current_tab), the functions that  *)
(* change it (add_event, delete_event, start_edit_event, the form's submit *)
(* handler) and the query logic of view_events_tab (filter, sort_events).  *)
(*                                                                         *)
(* Text is modelled as a sequence of one-character strings, so that        *)
(* str.lower() and the substring test `in` are computed, not assumed.      *)
(* A '%Y-%m-%d' text is the sequence of its numeric fields <<y, m, d>>,    *)
(* a '%H:%M' text the sequence <<h, m>>.                                   *)
(*                                                                         *)
(* Spec calls the functions in any order and with any argument: add_event  *)
(* straight or through the form's submit handler, start_edit_event and     *)
(* delete_event with any id, stored or not.  The clock add_event reads is  *)
(* the wall clock: it never runs backwards here, but two readings may be   *)
(* equal.  call records the last call and the state it started in, so that *)
(* what a call did is a predicate on one state.                            *)
(***************************************************************************)
EXTENDS Integers, Sequences, FiniteSets, TLC

VARIABLES
    events,           \* st.session_state.events: list of event dicts
    editing_id,       \* st.session_state.editing_id: None or an id
    current_tab,      \* st.session_state.current_tab
    clock,            \* the reading datetime.now().timestamp() gives now
    toast,            \* the last message shown by st.toast / st.error
    ret,              \* the value returned by the last function called
    issued,           \* history: the ids add_event has handed out so far
    call,             \* history: the last call, with the state it started in
    search_query,     \* view_events_tab: value of the search box
    category_filter,  \* view_events_tab: value of the category select box
    filtered_events,  \* view_events_tab: filtered_events
    sorted_events     \* view_events_tab: sorted_events

vars == <<events, editing_id, current_tab, clock, toast, ret, issued, call,
          search_query, category_filter, filtered_events, sorted_events>>

view == <<search_query, category_filter, filtered_events, sorted_events>>

----------------------------------------------------------------------------
(* Bounds *)

\* the largest number of events the store holds in the model
MaxEvents == 2

\* the number of distinct readings the clock takes in the model
MaxClock == 2

\* the largest number of events of a store the query logic is applied to
MaxStore == 3

----------------------------------------------------------------------------
(* Values *)

\* Python's None; a clock reading is never 0, so None is told apart from every id
None == 0

\* what a function that ends without a return statement returns, as text
NoValue == "None"

\* the tab names
CreateTab == "Create Event"

ViewTab == "View Events"

\* event_categories of create_event_tab
event_categories == <<"Meeting", "Conference", "Workshop", "Social", "Other">>

\* the first entry of the category filter's select box
AllCategories == "All Categories"

\* the messages the functions show
ToastUpdated == "Event updated successfully!"

ToastCreated == "New Event created!"

ToastDeleted == "Event deleted."

ErrorTitleRequired == "Event Title is required!"

\* the readings of the clock, which are the ids add_event hands out
Ids == 1..MaxClock

\* the range of a sequence
Range(s) == {s[i] : i \in 1..Len(s)}

\* str.lower() on one character of the sample alphabet {a, b, A, B}
LowerChar(ch) == IF ch = "A" THEN "a" ELSE IF ch = "B" THEN "b" ELSE ch

\* str.lower()
lower(s) == [i \in 1..Len(s) |-> LowerChar(s[i])]

\* Python's `needle in hay` on strings
Contains(needle, hay) ==
    \E k \in 0..(Len(hay) - Len(needle)) :
        \A j \in 1..Len(needle) : hay[k + j] = needle[j]

\* date.strftime('%Y-%m-%d'): the fields of the text
strftime_date(d) == <<d.year, d.month, d.day>>

\* time.strftime('%H:%M'): the fields of the text
strftime_time(t) == <<t.hour, t.minute>>

\* the values the widgets of the form hold when the submit button is pressed
Form(title, y, mo, d, h, mi, location, category, description) ==
    [eventTitle |-> title,
     eventDate |-> [year |-> y, month |-> mo, day |-> d],
     eventTime |-> [hour |-> h, minute |-> mi],
     eventLocation |-> location,
     eventCategory |-> category,
     eventDescription |-> description]

\* sample form contents; the third has an empty title
Forms ==
    { Form(<<"A", "b">>, 2024, 5, 1, 9, 0, <<>>, event_categories[1], <<>>),
      Form(<<"b", "a">>, 2024, 4, 20, 14, 0, <<"A">>, event_categories[3], <<"b">>),
      Form(<<>>, 2024, 5, 1, 9, 0, <<"b">>, event_categories[4], <<"a">>) }

\* the dict the submit handler builds from the widgets
EventData(f) ==
    [title |-> f.eventTitle,
     date |-> strftime_date(f.eventDate),
     time |-> strftime_time(f.eventTime),
     location |-> f.eventLocation,
     category |-> f.eventCategory,
     description |-> f.eventDescription]

\* the dicts add_event may be handed
EventDatas == {EventData(f) : f \in Forms}

\* {**event_data, 'id': id} and event_data['id'] = id
WithId(event_data, id) ==
    [id |-> id,
     title |-> event_data.title,
     date |-> event_data.date,
     time |-> event_data.time,
     location |-> event_data.location,
     category |-> event_data.category,
     description |-> event_data.description]

\* the data of an event without its id
Data(e) ==
    [title |-> e.title, date |-> e.date, time |-> e.time,
     location |-> e.location, category |-> e.category,
     description |-> e.description]

\* a history record: the function called, its argument, the state before it
Call(op, id, data, via) ==
    [op |-> op, id |-> id, data |-> data, via |-> via,
     events |-> events, editing_id |-> editing_id, issued |-> issued]

----------------------------------------------------------------------------
(* Event store and edit session *)

\* next((i for i, event in enumerate(events) if event['id'] == id), -1),
\* with positions counted from 1 and 0 for "not found"
IndexOf(evs, id) ==
    IF \E i \in 1..Len(evs) : evs[i].id = id
    THEN CHOOSE i \in 1..Len(evs) :
             /\ evs[i].id = id
             /\ \A j \in 1..(i - 1) : evs[j].id # id
    ELSE 0

\* get_event_by_id: the first event with that id, or None
get_event_by_id(event_id) ==
    IF IndexOf(events, event_id) = 0 THEN None
    ELSE events[IndexOf(events, event_id)]

\* a slip in the merge: the updated event gets a new id, as a created one does
add_event_edit_fresh_id(event_data) ==
    LET index == IndexOf(events, editing_id) IN
    /\ events' = IF index # 0
                 THEN [events EXCEPT ![index] = WithId(event_data, clock)]
                 ELSE events
    /\ editing_id' = None
    /\ toast' = ToastUpdated
    /\ issued' = issued

\* add_event, the branch taken while editing_id is not None
add_event_edit(event_data) ==
    LET index == IndexOf(events, editing_id) IN
    /\ events' = IF index # 0
                 THEN [events EXCEPT ![index] = WithId(event_data, editing_id)]
                 ELSE events
    /\ editing_id' = None
    /\ toast' = ToastUpdated
    /\ issued' = issued

\* add_event, the branch taken while editing_id is None
add_event_new(event_data) ==
    /\ events' = Append(events, WithId(event_data, clock))
    /\ editing_id' = editing_id
    /\ toast' = ToastCreated
    /\ issued' = issued \cup {clock}

\* add_event(event_data); via names the caller
add_event(event_data, via) ==
    /\ IF editing_id # None
       THEN add_event_edit(event_data)
       ELSE /\ Len(events) < MaxEvents
            /\ add_event_new(event_data)
    /\ current_tab' = ViewTab
    /\ ret' = NoValue
    /\ call' = Call("add_event", None, event_data, via)
    /\ UNCHANGED clock

\* a slip in the comprehension's test: it stops at the first event with the id
without_first_only(evs, event_id) ==
    LET hit == {i \in 1..Len(evs) : evs[i].id = event_id} IN
    IF hit = {} THEN evs
    ELSE LET k == CHOOSE i \in hit : \A j \in hit : i <= j
         IN SubSeq(evs, 1, k - 1) \o SubSeq(evs, k + 1, Len(evs))

\* the list delete_event saves
without(evs, event_id) == SelectSeq(evs, LAMBDA event : event.id # event_id)

\* a variant that also leaves edit mode when the event being edited goes
delete_event_clears_edit(event_id) ==
    /\ events' = without(events, event_id)
    /\ editing_id' = IF editing_id = event_id THEN None ELSE editing_id
    /\ toast' = ToastDeleted
    /\ ret' = NoValue
    /\ call' = Call("delete_event", event_id, None, "direct")
    /\ UNCHANGED <<current_tab, clock, issued>>

\* delete_event(event_id)
delete_event(event_id) ==
    /\ events' = without(events, event_id)
    /\ toast' = ToastDeleted
    /\ ret' = NoValue
    /\ call' = Call("delete_event", event_id, None, "direct")
    /\ UNCHANGED <<editing_id, current_tab, clock, issued>>

\* start_edit_event(event_id)
start_edit_event(event_id) ==
    /\ editing_id' = event_id
    /\ current_tab' = CreateTab
    /\ ret' = NoValue
    /\ call' = Call("start_edit_event", event_id, None, "direct")
    /\ UNCHANGED <<events, clock, toast, issued>>

\* the form's submit handler of create_event_tab
submit(f) ==
    IF f.eventTitle = <<>>
    THEN /\ toast' = ErrorTitleRequired
         /\ ret' = NoValue
         /\ call' = Call("submit", None, EventData(f), "form")
         /\ UNCHANGED <<events, editing_id, current_tab, clock, issued>>
    ELSE add_event(EventData(f), "form")

\* time passes: the clock takes its next reading
Tick ==
    /\ clock < MaxClock
    /\ clock' = clock + 1
    /\ UNCHANGED <<events, editing_id, current_tab, toast, ret, issued, call>>

----------------------------------------------------------------------------
(* Query logic of view_events_tab *)

\* the search texts tried
Queries == { <<>>, <<"A">>, <<"b">>, <<"b", "a">> }

\* event_categories of view_events_tab: the choices of the category filter
filter_categories == <<AllCategories>> \o event_categories

\* a slip: the search text is not lowercased
matches_search_exact_case(event, query) ==
    \/ Contains(query, lower(event.title))
    \/ Contains(query, lower(event.description))
    \/ Contains(query, lower(event.location))

\* matches_search
matches_search(event, query) ==
    \/ Contains(lower(query), lower(event.title))
    \/ Contains(lower(query), lower(event.description))
    \/ Contains(lower(query), lower(event.location))

\* matches_category
matches_category(event, filter) ==
    filter = AllCategories \/ event.category = filter

\* the filtering loop: the events that match, in the order of the store
filter_events(all_events, query, filter) ==
    SelectSeq(all_events,
              LAMBDA event : matches_search(event, query)
                             /\ matches_category(event, filter))

\* datetime.strptime(f"{date} {time}", "%Y-%m-%d %H:%M")
strptime(date, time) ==
    [year |-> date[1], month |-> date[2], day |-> date[3],
     hour |-> time[1], minute |-> time[2]]

\* datetime.__lt__
DatetimeLess(a, b) ==
    \/ a.year < b.year
    \/ a.year = b.year /\ a.month < b.month
    \/ a.year = b.year /\ a.month = b.month /\ a.day < b.day
    \/ a.year = b.year /\ a.month = b.month /\ a.day = b.day /\ a.hour < b.hour
    \/ a.year = b.year /\ a.month = b.month /\ a.day = b.day /\ a.hour = b.hour
       /\ a.minute < b.minute

\* the key sort_events sorts by
SortKey(x) == strptime(x.date, x.time)

\* a sort that is not stable: x goes in front of the elements with its key
InsertSortedInFront(x, done) ==
    LET behind == {i \in 0..Len(done) :
                      \A j \in 1..i : DatetimeLess(SortKey(done[j]), SortKey(x))}
        k == CHOOSE i \in behind : \A j \in behind : j <= i
    IN SubSeq(done, 1, k) \o <<x>> \o SubSeq(done, k + 1, Len(done))

\* sorted() is stable: x goes behind every element whose key is not greater
InsertSorted(x, done) ==
    LET behind == {i \in 0..Len(done) :
                      \A j \in 1..i : ~DatetimeLess(SortKey(x), SortKey(done[j]))}
        k == CHOOSE i \in behind : \A j \in behind : j <= i
    IN SubSeq(done, 1, k) \o <<x>> \o SubSeq(done, k + 1, Len(done))

RECURSIVE SortedPrefix(_, _)
\* sorted() applied to the first n elements of event_list
SortedPrefix(event_list, n) ==
    IF n = 0 THEN <<>>
    ELSE InsertSorted(event_list[n], SortedPrefix(event_list, n - 1))

\* sort_events(event_list)
sort_events(event_list) == SortedPrefix(event_list, Len(event_list))

\* view_events_tab drawn with the given search text and category filter
view_events_tab(query, filter) ==
    /\ search_query' = query
    /\ category_filter' = filter
    /\ filtered_events' = filter_events(events, query, filter)
    /\ sorted_events' = sort_events(filter_events(events, query, filter))
    /\ ret' = NoValue
    /\ call' = Call("view_events_tab", None, None, "direct")
    /\ UNCHANGED <<events, editing_id, current_tab, clock, toast, issued>>

----------------------------------------------------------------------------
(* The session: the functions called in any order *)

SessionInit ==
    /\ events = <<>>
    /\ editing_id = None
    /\ current_tab = CreateTab
    /\ clock = 1
    /\ toast = ""
    /\ ret = NoValue
    /\ issued = {}
    /\ call = [op |-> "main", id |-> None, data |-> None, via |-> "direct",
               events |-> <<>>, editing_id |-> None, issued |-> {}]

ViewInit ==
    /\ search_query = <<>>
    /\ category_filter = AllCategories
    /\ filtered_events = <<>>
    /\ sorted_events = <<>>

Init == SessionInit /\ ViewInit

Submit == \E f \in Forms : submit(f) /\ UNCHANGED view

AddEvent == \E d \in EventDatas : add_event(d, "direct") /\ UNCHANGED view

DeleteEvent == \E id \in Ids : delete_event(id) /\ UNCHANGED view

StartEditEvent == \E id \in Ids : start_edit_event(id) /\ UNCHANGED view

ClockTick == Tick /\ UNCHANGED view

Next ==
    \/ Submit
    \/ AddEvent
    \/ DeleteEvent
    \/ StartEditEvent
    \/ ClockTick

Spec == Init /\ [][Next]_vars

----------------------------------------------------------------------------
(* Properties of the event store and the edit session, checked under Spec  *)

\* the ids of the events of a store
IdsOf(evs) == {evs[i].id : i \in 1..Len(evs)}

\* the event get(id) answers with is in the store
Stored(evs, id) == id \in IdsOf(evs)

\* the position of the event get(id) answers with: the first with that id
FirstWith(evs, id) == CHOOSE i \in 1..Len(evs) :
                          evs[i].id = id /\ \A j \in 1..(i - 1) : evs[j].id # id

\* the last call was add_event, made in create mode
Created == call.op = "add_event" /\ call.editing_id = None

\* the last call was add_event, made while editing_id was set
Submitted == call.op = "add_event" /\ call.editing_id # None

\* C1: after any sequence of create, update and delete operations no two
\* events of the store have the same id.
C1_UniqueIds ==
    \A i, j \in 1..Len(events) : i # j => events[i].id # events[j].id

\* C2: a submit with a non-empty title updates the event editing_id names and
\* clears editing_id when that event is in the store, and in every other case
\* (editing_id none, or naming no stored event) appends a new event carrying
\* the submitted data.
C2_SubmitDispatch ==
    (call.op = "add_event" /\ call.data.title # <<>>) =>
        IF call.editing_id # None /\ Stored(call.events, call.editing_id)
        THEN /\ events = [call.events EXCEPT
                            ![FirstWith(call.events, call.editing_id)] =
                                WithId(call.data, call.editing_id)]
             /\ editing_id = None
        ELSE /\ Len(events) = Len(call.events) + 1
             /\ SubSeq(events, 1, Len(call.events)) = call.events
             /\ Data(events[Len(events)]) = call.data

\* C3: an update whose target id is not in the store ends in an outcome that
\* is not the success outcome, and leaves the store's events unchanged.
C3_UpdateAbsentIsReported ==
    (Submitted /\ ~Stored(call.events, call.editing_id)) =>
        /\ toast \notin {ToastUpdated, ToastCreated}
        /\ events = call.events

\* C4: a create request with an empty title ends in the validation error and
\* leaves the store unchanged, through the form's submit handler and through
\* add_event alike.
C4_EmptyTitleRejected ==
    (/\ call.op \in {"add_event", "submit"}
     /\ call.editing_id = None
     /\ call.data.title = <<>>) =>
        /\ toast = ErrorTitleRequired
        /\ events = call.events

\* the events of evs whose id is not id, in their order, found by counting
\* positions
Others(evs, id) ==
    LET keep == {i \in 1..Len(evs) : evs[i].id # id}
        place(i) == Cardinality({j \in keep : j <= i})
    IN [n \in 1..Cardinality(keep) |-> evs[CHOOSE i \in keep : place(i) = n]]

\* C5 as stated: delete(id) of an id not in the store returns false and leaves
\* the stored ids unchanged; of an id in the store it returns true and removes
\* the event with that id, every other event staying, unmodified, in its order.
C5_DeleteReturnsBool ==
    call.op = "delete_event" =>
        IF Stored(call.events, call.id)
        THEN ret = "True" /\ events = Others(call.events, call.id)
        ELSE ret \in {"False", NoValue} /\ IdsOf(events) = IdsOf(call.events)

\* C5 as amended: delete(id) returns no value and shows "Event deleted."
\* whether or not id is in the store; an id not in the store leaves the store
\* unchanged; an id in the store has every event with that id removed, every
\* other event staying, unmodified, in its order.
C5_DeleteFrame ==
    call.op = "delete_event" =>
        /\ ret = NoValue
        /\ toast = ToastDeleted
        /\ ~Stored(call.events, call.id) => events = call.events
        /\ Stored(call.events, call.id) =>
               /\ ~Stored(events, call.id)
               /\ events = Others(call.events, call.id)

\* a delete has removed the second of two events and kept the first
C5_Witness ==
    /\ call.op = "delete_event"
    /\ Len(call.events) = 2
    /\ Len(events) = 1
    /\ events[1] = call.events[1]

C7_EditSessionMachine ==
    /\ call.op = "main" => editing_id = None
    /\ call.op = "start_edit_event" => editing_id = call.id
    /\ Submitted => editing_id = None
    /\ (Created \/ call.op \in {"submit", "delete_event"}) =>
           editing_id = call.editing_id

\* the event being edited has been deleted, and the session is still in
\* Editing(id)
C7_Witness ==
    /\ call.op = "delete_event"
    /\ call.editing_id = call.id
    /\ Stored(call.events, call.id)
    /\ editing_id = call.id

\* C8: in every reachable state every event of the store has a non-empty
\* title and a category of the fixed set.
C8_TitleAndCategory ==
    \A i \in 1..Len(events) :
        /\ events[i].title # <<>>
        /\ events[i].category \in Range(event_categories)

\* C9: an id handed out by create is never handed out again in the session,
\* also not after the event that had it was deleted.
C9_IdsNeverReused ==
    Created => events[Len(events)].id \notin call.issued

\* C12: right after create(data) with valid data, get of the new id answers
\* with an event carrying data, the new event is the last of the store, and
\* the events stored before are unchanged and in their order.
C12_CreateRoundTrip ==
    (Created /\ call.data.title # <<>>) =>
        /\ Len(events) = Len(call.events) + 1
        /\ SubSeq(events, 1, Len(call.events)) = call.events
        /\ Data(events[Len(events)]) = call.data
        /\ Stored(events, events[Len(events)].id)
        /\ Data(get_event_by_id(events[Len(events)].id)) = call.data

\* C13: in every reachable state, after any interleaving of create,
\* begin_edit, submit and delete, editing_id is none or the id of an event of
\* the store; deleting the event being edited does not leave editing_id
\* naming a removed event.
C13_EditingIdResolves ==
    editing_id = None \/ Stored(events, editing_id)

----------------------------------------------------------------------------
(* The query logic on its own: any store the session can hold, drawn any   *)
(* number of times with any search text and category filter                *)

\* the events a store can hold
StoredEvents == {WithId(d, id) : d \in EventDatas, id \in Ids}

\* the stores of at most MaxStore events; ids never decrease along a store
Stores ==
    UNION { {st \in [1..n -> StoredEvents] :
                \A i \in 1..n, j \in 1..n : i < j => st[i].id <= st[j].id}
            : n \in 0..MaxStore }

QueryInit ==
    /\ events \in Stores
    /\ editing_id = None
    /\ current_tab = ViewTab
    /\ clock = MaxClock
    /\ toast = ""
    /\ ret = NoValue
    /\ issued = {events[i].id : i \in 1..Len(events)}
    /\ call = [op |-> "main", id |-> None, data |-> None, via |-> "direct",
               events |-> <<>>, editing_id |-> None, issued |-> {}]
    /\ ViewInit

ViewEventsTab ==
    \E query \in Queries, filter \in Range(filter_categories) :
        view_events_tab(query, filter)

QueryNext == ViewEventsTab

QuerySpec == QueryInit /\ [][QueryNext]_vars

----------------------------------------------------------------------------
(* Properties of the query logic, checked under QuerySpec *)

\* sub is a substring of s: it is cut out of s between two positions
IsSubstring(sub, s) ==
    \E i \in 1..(Len(s) + 1), j \in 0..Len(s) : SubSeq(s, i, j) = sub

\* the match the filter is to make
Matches(event, query, filter) ==
    /\ filter = AllCategories \/ filter = event.category
    /\ \/ query = <<>>
       \/ IsSubstring(lower(query), lower(event.title))
       \/ IsSubstring(lower(query), lower(event.description))
       \/ IsSubstring(lower(query), lower(event.location))

\* how often x occurs in the sequence s
Count(s, x) == Cardinality({i \in 1..Len(s) : s[i] = x})

\* C10: the list shown for (query, category) holds exactly the stored events
\* whose category the filter admits and whose title, description or location
\* contains the lowercased query; an empty description or location matches
\* the empty query only.
C10_FilterExact ==
    call.op = "view_events_tab" =>
        /\ \A x \in Range(events) \cup Range(sorted_events) :
               Count(sorted_events, x) =
                   IF Matches(x, search_query, category_filter)
                   THEN Count(events, x) ELSE 0
        /\ \A i \in 1..Len(events) :
               (search_query # <<>> /\ events[i].description = <<>>
                                    /\ events[i].location = <<>>) =>
                   (events[i] \in Range(sorted_events) =>
                        IsSubstring(lower(search_query), lower(events[i].title)))

\* a non-empty query and a category filter have kept an event with empty
\* description and location, found by its title, and dropped another event
C10_Witness ==
    /\ call.op = "view_events_tab"
    /\ search_query # <<>>
    /\ category_filter # AllCategories
    /\ Len(sorted_events) < Len(events)
    /\ \E i \in 1..Len(sorted_events) :
           sorted_events[i].description = <<>> /\ sorted_events[i].location = <<>>

\* the minutes from the start of year 0 to an event's date and time, months
\* counted as 31 days: earlier on the calendar is smaller
Minutes(e) ==
    ((((e.date[1] * 12 + e.date[2]) * 31 + e.date[3]) * 24) + e.time[1]) * 60
    + e.time[2]

\* the events of s that fall on the given minute, in their order
OnMinute(s, m) == SelectSeq(s, LAMBDA e : Minutes(e) = m)

\* C11: sort_events returns a permutation of its input, ascending by date
\* and time of day, with events of equal date and time in their input order,
\* and sorting the result again gives the same list.
C11_SortStableIdempotent ==
    call.op = "view_events_tab" =>
        /\ \A x \in Range(filtered_events) \cup Range(sorted_events) :
               Count(sorted_events, x) = Count(filtered_events, x)
        /\ \A i, j \in 1..Len(sorted_events) :
               i < j => Minutes(sorted_events[i]) <= Minutes(sorted_events[j])
        /\ \A x \in Range(filtered_events) :
               OnMinute(sorted_events, Minutes(x)) =
                   OnMinute(filtered_events, Minutes(x))
        /\ sort_events(sorted_events) = sorted_events

\* the sort has moved a later-stored event to the front and has kept two
\* different events of equal date and time in their stored order
C11_Witness ==
    /\ call.op = "view_events_tab"
    /\ Len(sorted_events) = 3
    /\ sorted_events # filtered_events
    /\ \E i, j \in 1..Len(filtered_events) :
           /\ i < j
           /\ filtered_events[i] # filtered_events[j]
           /\ Minutes(filtered_events[i]) = Minutes(filtered_events[j])

----------------------------------------------------------------------------
(* The session as the page drives it.  main draws one tab per run, the one *)
(* current_tab names: the form can be submitted only while the Create tab  *)
(* is drawn, and an Edit or Delete button exists only for an event the     *)
(* last drawing of the View tab has listed.  A button's callback is        *)
(* followed by a rerun of the script, which draws the page again.          *)

\* the form is submitted: create_event_tab runs with submit_button true
UISubmit ==
    /\ current_tab = CreateTab
    /\ \E f \in Forms : submit(f)
    /\ UNCHANGED view

\* a rerun while current_tab is 'View Events': the user has typed a search
\* text or picked a category, and view_events_tab draws the list
UIView ==
    /\ current_tab = ViewTab
    /\ \E query \in Queries, filter \in Range(filter_categories) :
           view_events_tab(query, filter)

\* the ids that have an Edit and a Delete button on the page
Buttons == IF current_tab = ViewTab THEN IdsOf(sorted_events) ELSE {}

\* an Edit button is clicked: start_edit_event runs, then the rerun draws
\* the form, and the widgets of the View tab are gone
UIEdit ==
    \E id \in Buttons :
        /\ start_edit_event(id)
        /\ search_query' = <<>>
        /\ category_filter' = AllCategories
        /\ filtered_events' = <<>>
        /\ sorted_events' = <<>>

\* a Delete button is clicked: delete_event runs, then the rerun draws the
\* View tab again with the search text and category as they are
UIDelete ==
    \E id \in Buttons :
        /\ delete_event(id)
        /\ UNCHANGED <<search_query, category_filter>>
        /\ filtered_events' = filter_events(events', search_query, category_filter)
        /\ sorted_events' =
               sort_events(filter_events(events', search_query, category_filter))

UINext ==
    \/ UISubmit
    \/ UIView
    \/ UIEdit
    \/ UIDelete
    \/ ClockTick

UISpec == Init /\ [][UINext]_vars

----------------------------------------------------------------------------
(* Properties of the page-driven session, checked under UISpec *)

\* the form is shown in create mode
CreateMode == current_tab = CreateTab /\ editing_id = None

\* create mode can be reached by at most one, two, three user actions; three
\* actions take the page once round, from the list to the form and back
CreateModeIn1 == CreateMode \/ ENABLED (UINext /\ CreateMode')

CreateModeIn2 == CreateMode \/ ENABLED (UINext /\ CreateModeIn1')

CreateModeIn3 == CreateMode \/ ENABLED (UINext /\ CreateModeIn2')

\* C14: from every reachable state of the session some sequence of user
\* actions (submit, Edit click, Delete click) leads to the form shown in
\* create mode; creating is never disabled for good after the first
\* successful submit.
C14_CreateModeReachable == CreateModeIn3

\* what the code does instead: once an event has been created, the form is
\* never shown in create mode again, whatever the user does and however long
CreateModeIsGone == issued # {} => ~CreateMode

\* through the page the store never holds more than one event
AtMostOneEvent == Len(events) <= 1

====
